---- MODULE Spec2Model ----
(***************************************************************************)
(* Model of sovrin/agent/agent.py: the WalletedAgent message dispatcher    *)
(* and its protocol handlers (ACCEPT_INVITE, AVAIL_CLAIM_LIST,             *)
(* REQUEST_CLAIMS, CLAIMS, ERROR).                                         *)
(*                                                                         *)
(* Two agents, A and B, each own a wallet (links, claim definitions) and   *)
(* an endpoint (the set of remotes it knows).  The environment delivers    *)
(* arbitrary messages to A; B receives what A transmits to it.  One step   *)
(* of the model is one call of handleEndpointMessage (or one call of       *)
(* sendMessage by the agent's owner), run to its end: the wallet is        *)
(* updated, and the calls the handler made on its collaborators during     *)
(* that one call are recorded, in order, in calls (endpoint.transmit,      *)
(* client.submitReqs, notifyObservers); raised is the exception that left  *)
(* the handler, if any.                                                    *)
(***************************************************************************)
EXTENDS Integers, Sequences, FiniteSets, TLC

VARIABLES
    links,       \* links[a][name]: the Link objects of agent a's wallet
    claimDefs,   \* claimDefs[a]: the claim definitions of agent a's wallet
    remotes,     \* remotes[a]: names of the remotes a's endpoint knows
    cur,         \* the inbound message of the last handleEndpointMessage call
    before,      \* wallet of the handling agent when that call began
    calls,       \* calls made on the endpoint, the ledger client and the
                 \* observers during that call, in order
    raised,      \* exception that propagated out of that call ("none" if none)
    verifiedNonces, \* verifiedNonces[a]: nonces of the messages handled so
                 \* far for which verifyAndGetLink's signature check passed
    acceptedNonces, \* acceptedNonces[a]: nonces of the ACCEPT_INVITE messages
                 \* handled so far for which verifyAndGetLink gave a link
    steps,       \* number of calls so far (the clock)
    posted,      \* the last call, when it was a sendMessage made from outside
                 \* the handlers: who called, the destName and the message
    chain        \* number of handleEndpointMessage calls the message that
                 \* last entered from outside has led to, itself included

vars == <<links, claimDefs, remotes, cur, before, calls, raised,
          verifiedNonces, acceptedNonces, steps, posted, chain>>

-----------------------------------------------------------------------------
(* Bounds of the model *)

\* number of inbound messages handled in one behaviour
MaxSteps == 2

-----------------------------------------------------------------------------
(* Message types and field values (agent.py lines 14-32) *)

ERROR == "ERROR"
AVAIL_CLAIM_LIST == "AVAIL_CLAIM_LIST"
CLAIMS == "CLAIMS"
ACCEPT_INVITE == "ACCEPT_INVITE"
REQUEST_CLAIMS == "REQUEST_CLAIMS"
NYM == "NYM"

\* Python's None, for string-valued slots
None == "None"
\* Python's None, for identifier-valued slots
NoId == [enc |-> "none", key |-> "none"]

LINK_STATUS_PENDING == "PENDING"
LINK_STATUS_ACCEPTED == "ACCEPTED"
TARGET_VER_KEY_SAME_AS_ID == "TARGET_VER_KEY_SAME_AS_ID"

-----------------------------------------------------------------------------
(* Identifiers: a verification key in one of two textual encodings *)

Hex(k) == [enc |-> "hex", key |-> k]
Crypt(k) == [enc |-> "crypt", key |-> k]

isHex(identifier) == identifier.enc = "hex"

cryptonymToHex(identifier) == Hex(identifier.key)

getCryptonym(identifier) ==
    IF isHex(identifier) THEN Crypt(identifier.key) ELSE identifier

-----------------------------------------------------------------------------
(* Mappings (Python dicts) *)

\* d[k] = v
SetField(d, k, v) == (k :> v) @@ d

\* d.get(k, dflt)
Get(d, k, dflt) == IF k \in DOMAIN d THEN d[k] ELSE dflt

-----------------------------------------------------------------------------
(* Signatures.  A signature records the key that made it and the payload   *)
(* it was made over; the payload of a message is the message without its   *)
(* signature field.                                                        *)

WithoutSig(msg) == [k \in DOMAIN msg \ {"signature"} |-> msg[k]]

\* wallet.signMsg(msg, identifier): sign with the signing key of identifier
signMsg(msg, identifier) == [by |-> identifier.key, over |-> WithoutSig(msg)]

\* sovrin.common.util.verifySig(identifier, signature, msg)
verifySig(identifier, signature, msg) ==
    LET key == IF isHex(identifier) THEN identifier
               ELSE cryptonymToHex(identifier)
    IN  /\ signature.by = key.key
        /\ signature.over = WithoutSig(msg)

-----------------------------------------------------------------------------
(* The agents and what their wallets and collaborators hold at start *)

Agents == {"A", "B"}

\* names an endpoint may know a remote by: the agents and a stranger
Names == {"A", "B", "X"}

\* endpoint.getRemote(name).ha
HaOf(name) == CASE name = "A" -> "haA" [] name = "B" -> "haB" [] OTHER -> "haX"

\* wallet.defaultId
defaultId(a) == IF a = "A" THEN Hex("kA") ELSE Crypt("kB")

\* getAvailableClaimList(): the catalog of claims the agent can issue
getAvailableClaimList(a) ==
    IF a = "B" THEN << >>
    ELSE << [name |-> "c1", version |-> "1.0", claimDefSeqNo |-> 1,
             definition |-> "d1"],
            [name |-> "c2", version |-> "1.0", claimDefSeqNo |-> 2,
             definition |-> "d2"] >>

\* getClaimList(): the claims the agent holds ready to send
getClaimList(a) ==
    IF a = "B" THEN << >>
    ELSE << [name |-> "c1", version |-> "1.0", claimDefSeqNo |-> 1,
             values |-> "v1"],
            [name |-> "c2", version |-> "1.0", claimDefSeqNo |-> 2,
             values |-> "v2"],
            [name |-> "c1", version |-> "2.0", claimDefSeqNo |-> 3,
             values |-> "v3"] >>

\* A Link as the wallet holds it before any message was handled
NewLink(name, nonce, target, localIdentifier) ==
    [name |-> name, nonce |-> nonce, target |-> target,
     localIdentifier |-> localIdentifier,
     remoteIdentifier |-> NoId, remoteEndPoint |-> None,
     linkStatus |-> LINK_STATUS_PENDING, targetVerkey |-> None,
     availableClaims |-> << >>, receivedClaims |-> << >>]

\* The links of each wallet.  A holds a link with B (nonce n1), on which
\* it goes by its default identifier, and a link with X (nonce n2), on
\* which it goes by an identifier of its own; B holds a link with A.
InitLinks(a) ==
    IF a = "A"
    THEN [n \in {"toB", "toX"} |->
            IF n = "toB" THEN NewLink("toB", "n1", Crypt("kB"), Hex("kA"))
            ELSE NewLink("toX", "n2", Crypt("kX"), Crypt("kA2"))]
    ELSE [n \in {"toA"} |-> NewLink("toA", "n1", Crypt("kA"), Crypt("kB"))]

-----------------------------------------------------------------------------
(* Link store and claim store (the wallet)                                 *)

\* wallet.getLinkByNonce(nonce): name of the link with that nonce, or None
getLinkByNonce(ls, nonce) ==
    IF \E n \in DOMAIN ls : ls[n].nonce = nonce
    THEN CHOOSE n \in DOMAIN ls : ls[n].nonce = nonce
    ELSE None

\* wallet.getLinkInvitationByTarget(target)
getLinkInvitationByTarget(ls, target) ==
    IF \E n \in DOMAIN ls : ls[n].target = target
    THEN CHOOSE n \in DOMAIN ls : ls[n].target = target
    ELSE None

\* wallet.addLinkInvitation(li): store the link under its name
addLinkInvitation(ls, li) == [ls EXCEPT ![li.name] = li]

ClaimDefKey(name, version, claimDefSeqNo) ==
    [name |-> name, version |-> version, claimDefSeqNo |-> claimDefSeqNo]

AvailableClaimData(claimDefKey) == [claimDefKey |-> claimDefKey]

ClaimDef(claimDefKey, definition) ==
    [claimDefKey |-> claimDefKey, definition |-> definition]

ReceivedClaim(defKey, issuerKeys, values) ==
    [defKey |-> defKey, issuerKeys |-> issuerKeys, values |-> values,
     dateOfIssue |-> 0]

\* wallet.addClaimDef(claimDef): a definition is immutable once stored
addClaimDef(store, claimDef) ==
    IF \E cd \in store : cd.claimDefKey = claimDef.claimDefKey
    THEN store
    ELSE store \cup {claimDef}

\* Link.updateAvailableClaims(acds): an entry whose ClaimDefKey the link
\* already lists replaces it in place, a new one goes to the end
RECURSIVE updateAvailableClaims(_, _)
updateAvailableClaims(have, acds) ==
    IF acds = << >> THEN have
    ELSE LET acd == Head(acds)
             at == {i \in 1..Len(have) : have[i].claimDefKey = acd.claimDefKey}
             next == IF at = {} THEN Append(have, acd)
                     ELSE [i \in 1..Len(have) |->
                              IF i \in at THEN acd ELSE have[i]]
         IN  updateAvailableClaims(next, Tail(acds))

\* Link.updateReceivedClaims(rcs): received claims are appended
updateReceivedClaims(have, rcs) == have \o rcs

-----------------------------------------------------------------------------------------------------------------------------------------------------
(* Outcome of one handler call: the wallet after it, the calls it made on  *)
(* its collaborators, the exception that ended it                          *)

Eff(ls, cds, cls, exc) ==
    [links |-> ls, claimDefs |-> cds, calls |-> cls, raised |-> exc]

\* endpoint.transmit(msg, remote.uid)
Transmit(a, destName, msg) ==
    [call |-> "transmit", frm |-> a, to |-> destName, body |-> msg]

\* client.submitReqs(req)
SubmitReqs(req) == [call |-> "submitReqs", req |-> req]

\* one o.notify(self, msg) round: the format string and its arguments
Notify(text, args) == [call |-> "notify", text |-> text, args |-> args]

\* a signature value that no key made
NoSig == [by |-> "none", over |-> [type |-> "none"]]

-----------------------------------------------------------------------------
(* Agent.sendMessage and the reply builders *)

\* sendMessage as it would be if the remote were not looked up
sendMessageUnchecked(a, msg, destName) == << Transmit(a, destName, msg) >>

\* Agent.sendMessage(msg, destName): an unknown destination drops the message
sendMessage(a, msg, destName) ==
    IF destName \in remotes[a]
    THEN << Transmit(a, destName, msg) >>
    ELSE << >>

\* signAndSendToCaller as it would be if the identifier field named the
\* identifier the message is signed with
signAndSendToCallerAsSigner(a, resp, identifier, frm) ==
    LET withId == SetField(resp, "identifier", identifier)
        signature == signMsg(withId, identifier)
        signed == SetField(withId, "signature", signature)
    IN  sendMessage(a, signed, frm)

signAndSendToCaller(a, resp, identifier, frm) ==
    LET withId == SetField(resp, "identifier", defaultId(a))
        signature == signMsg(withId, identifier)
        signed == SetField(withId, "signature", signature)
    IN  sendMessage(a, signed, frm)

\* getErrorResponse as it would be if the errorMsg argument were dropped and
\* the default "Error" always sent
getErrorResponseGeneric(reqBody, errorMsg) ==
    [type |-> ERROR, data |-> "Error", REQ_MSG |-> reqBody]

getErrorResponse(reqBody, errorMsg) ==
    [type |-> ERROR, data |-> errorMsg, REQ_MSG |-> reqBody]

logAndSendErrorResp(a, to, reqBody, respMsg) ==
    signAndSendToCaller(a, getErrorResponse(reqBody, respMsg), defaultId(a), to)

getCommonMsg(type) == [type |-> type]

createAvailClaimListMsg(claimLists) ==
    SetField(getCommonMsg(AVAIL_CLAIM_LIST), "availableClaimsList", claimLists)

createClaimsMsg(claims) ==
    SetField(getCommonMsg(CLAIMS), "claims", claims)

\* _sendToSovrin(op): sign the operation with the default identity, submit it
sendToSovrin(a, op) ==
    << SubmitReqs([op |-> op, signedBy |-> defaultId(a)]) >>

-----------------------------------------------------------------------------
(* verifyAndGetLink and _isVerified *)

\* verifyAndGetLink as it would be if the link were looked for before the
\* signature is judged
verifyAndGetLinkLinkFirst(a, ls, body, frm, ha) ==
    LET key == Get(body, "identifier", NoId)
        signature == Get(body, "signature", NoSig)
        verified == verifySig(key, signature, body)
        nonce == Get(body, "nonce", None)
        matchingLink == getLinkByNonce(ls, nonce)
    IN  IF matchingLink = None
        THEN [link |-> None, links |-> ls,
              calls |-> logAndSendErrorResp(a, frm, body, "No Such Link found")]
        ELSE IF ~verified
        THEN [link |-> None, links |-> ls,
              calls |-> logAndSendErrorResp(a, frm, body, "Signature Rejected")]
        ELSE [link |-> matchingLink,
              links |-> [ls EXCEPT
                           ![matchingLink].remoteIdentifier =
                               Get(body, "identifier", NoId),
                           ![matchingLink].remoteEndPoint = ha],
              calls |-> << >>]

\* verifyAndGetLink as it would be if the link were updated as soon as it
\* is found, before the signature is judged
verifyAndGetLinkUpdateFirst(a, ls, body, frm, ha) ==
    LET key == Get(body, "identifier", NoId)
        signature == Get(body, "signature", NoSig)
        verified == verifySig(key, signature, body)
        nonce == Get(body, "nonce", None)
        matchingLink == getLinkByNonce(ls, nonce)
        updated == IF matchingLink = None THEN ls
                   ELSE [ls EXCEPT
                           ![matchingLink].remoteIdentifier =
                               Get(body, "identifier", NoId),
                           ![matchingLink].remoteEndPoint = ha]
    IN  IF ~verified
        THEN [link |-> None, links |-> updated,
              calls |-> logAndSendErrorResp(a, frm, body, "Signature Rejected")]
        ELSE IF matchingLink = None
        THEN [link |-> None, links |-> updated,
              calls |-> logAndSendErrorResp(a, frm, body, "No Such Link found")]
        ELSE [link |-> matchingLink, links |-> updated, calls |-> << >>]

\* Result: the matching link's name (or None), the links after the call,
\* the calls made
verifyAndGetLink(a, ls, body, frm, ha) ==
    LET key == Get(body, "identifier", NoId)
        signature == Get(body, "signature", NoSig)
        verified == verifySig(key, signature, body)
        nonce == Get(body, "nonce", None)
        matchingLink == getLinkByNonce(ls, nonce)
    IN  IF ~verified
        THEN [link |-> None, links |-> ls,
              calls |-> logAndSendErrorResp(a, frm, body, "Signature Rejected")]
        ELSE IF matchingLink = None
        THEN [link |-> None, links |-> ls,
              calls |-> logAndSendErrorResp(a, frm, body, "No Such Link found")]
        ELSE [link |-> matchingLink,
              links |-> [ls EXCEPT
                           ![matchingLink].remoteIdentifier =
                               Get(body, "identifier", NoId),
                           ![matchingLink].remoteEndPoint = ha],
              calls |-> << >>]

\* _isVerified as it would be if a rejected signature were not told to the
\* observers
isVerifiedSilent(msg) ==
    LET signature == Get(msg, "signature", NoSig)
        identifier == Get(msg, "identifier", NoId)
        msgWithoutSig == WithoutSig(msg)
        key == IF ~isHex(identifier) THEN cryptonymToHex(identifier)
               ELSE identifier
        ok == verifySig(key, signature, msgWithoutSig)
    IN  [ok |-> ok, calls |-> << >>]

\* Result: whether the signature verifies, and the calls made
isVerified(msg) ==
    LET signature == Get(msg, "signature", NoSig)
        identifier == Get(msg, "identifier", NoId)
        msgWithoutSig == WithoutSig(msg)
        key == IF ~isHex(identifier) THEN cryptonymToHex(identifier)
               ELSE identifier
        ok == verifySig(key, signature, msgWithoutSig)
    IN  [ok |-> ok,
         calls |-> IF ~ok THEN << Notify("Signature rejected", << >>) >>
                   ELSE << >>]

-----------------------------------------------------------------------------
(* The protocol handlers.  w is the wallet [links, claimDefs] of agent a   *)
(* when the handler starts; the message is (body, (frm, ha)).              *)

\* _handleError as it would be if it judged the signature first, as the
\* other handlers do
handleErrorVerifying(a, w, body, frm, ha) ==
    LET v == isVerified(body)
    IN  IF ~v.ok
        THEN Eff(w.links, w.claimDefs, v.calls, "none")
        ELSE Eff(w.links, w.claimDefs,
                 << Notify("Error ({}) occurred while processing this msg: {}",
                           << body.data, body.REQ_MSG >>) >>,
                 "none")

\* _handleError as it would be if an ERROR were answered with an ERROR
handleErrorAnswering(a, w, body, frm, ha) ==
    Eff(w.links, w.claimDefs,
        << Notify("Error ({}) occurred while processing this msg: {}",
                  << body.data, body.REQ_MSG >>) >>
        \o logAndSendErrorResp(a, frm, body, "Signature Rejected"),
        "none")

\* _handleError
handleError(a, w, body, frm, ha) ==
    Eff(w.links, w.claimDefs,
        << Notify("Error ({}) occurred while processing this msg: {}",
                  << body.data, body.REQ_MSG >>) >>,
        "none")

\* _acceptInvite as it would be if the reply were sent before the NYM
\* operation is submitted
acceptInviteReplyFirst(a, w, body, frm, ha) ==
    LET r == verifyAndGetLink(a, w.links, body, frm, ha)
    IN  IF r.link /= None
        THEN LET identifier == Get(body, "identifier", NoId)
                 op == [dest |-> identifier, type |-> NYM]
                 resp == createAvailClaimListMsg(getAvailableClaimList(a))
             IN  Eff(r.links, w.claimDefs,
                     r.calls \o
                     signAndSendToCaller(
                         a, resp, r.links[r.link].localIdentifier, frm) \o
                     sendToSovrin(a, op),
                     "none")
        ELSE Eff(r.links, w.claimDefs, r.calls, "none")

\* _acceptInvite
acceptInvite(a, w, body, frm, ha) ==
    LET r == verifyAndGetLink(a, w.links, body, frm, ha)
    IN  IF r.link /= None
        THEN LET identifier == Get(body, "identifier", NoId)
                 op == [dest |-> identifier, type |-> NYM]
                 resp == createAvailClaimListMsg(getAvailableClaimList(a))
             IN  Eff(r.links, w.claimDefs,
                     r.calls \o sendToSovrin(a, op) \o
                     signAndSendToCaller(
                         a, resp, r.links[r.link].localIdentifier, frm),
                     "none")
        ELSE Eff(r.links, w.claimDefs, r.calls, "none")

\* lines 369-372 as they would be if the name test were dropped
claimsToSendUnfiltered(a, claimName) == getClaimList(a)

\* _reqClaim, lines 369-372: the catalog entries with the requested name
claimsToSend(a, claimName) ==
    SelectSeq(getClaimList(a), LAMBDA cl : cl.name = claimName)

\* _reqClaim
reqClaim(a, w, body, frm, ha) ==
    LET r == verifyAndGetLink(a, w.links, body, frm, ha)
    IN  IF r.link /= None
        THEN LET resp == createClaimsMsg(claimsToSend(a, body.claimName))
             IN  Eff(r.links, w.claimDefs,
                     r.calls \o
                     signAndSendToCaller(
                         a, resp, r.links[r.link].localIdentifier, frm),
                     "none")
        ELSE Eff(r.links, w.claimDefs, r.calls, "NotImplementedError")

\* the loop of lines 266-280 as it would be if an entry without definition
\* were passed over instead of ending the handler
RECURSIVE availableClaimsLoopSkipping(_, _, _)
availableClaimsLoopSkipping(cls, availableClaims, store) ==
    IF cls = << >>
    THEN [availableClaims |-> availableClaims, claimDefs |-> store,
          raised |-> "none"]
    ELSE LET cl == Head(cls)
             claimDefKey == ClaimDefKey(cl.name, cl.version, cl.claimDefSeqNo)
             appended == Append(availableClaims, AvailableClaimData(claimDefKey))
         IN  availableClaimsLoopSkipping(
                 Tail(cls), appended,
                 IF Get(cl, "definition", None) /= None
                 THEN addClaimDef(store, ClaimDef(claimDefKey, cl.definition))
                 ELSE store)

\* _handleAcceptInviteResponse, lines 266-280: the loop over the claims list.
\* Result: the availableClaims list built, the claim store, and the
\* exception that ended the loop ("none" if it ran to its end).
RECURSIVE availableClaimsLoop(_, _, _)
availableClaimsLoop(cls, availableClaims, store) ==
    IF cls = << >>
    THEN [availableClaims |-> availableClaims, claimDefs |-> store,
          raised |-> "none"]
    ELSE LET cl == Head(cls)
             claimDefKey == ClaimDefKey(cl.name, cl.version, cl.claimDefSeqNo)
             appended == Append(availableClaims, AvailableClaimData(claimDefKey))
         IN  IF Get(cl, "definition", None) /= None
             THEN availableClaimsLoop(
                      Tail(cls), appended,
                      addClaimDef(store, ClaimDef(claimDefKey, cl.definition)))
             ELSE [availableClaims |-> appended, claimDefs |-> store,
                   raised |-> "NotImplementedError"]

\* lines 282-284 as they would be if the claims were added to the end of
\* the link's list whether or not it has them
acceptedLinkExtending(li, availableClaims) ==
    [li EXCEPT !.linkStatus = LINK_STATUS_ACCEPTED,
               !.targetVerkey = TARGET_VER_KEY_SAME_AS_ID,
               !.availableClaims = @ \o availableClaims]

\* lines 282-284 as they would be if a response without claims left the
\* status of the link alone
acceptedLinkUnlessEmpty(li, availableClaims) ==
    [li EXCEPT !.linkStatus = IF availableClaims = << >> THEN @
                              ELSE LINK_STATUS_ACCEPTED,
               !.targetVerkey = TARGET_VER_KEY_SAME_AS_ID,
               !.availableClaims = updateAvailableClaims(@, availableClaims)]

\* _handleAcceptInviteResponse, lines 282-284: the link once accepted
acceptedLink(li, availableClaims) ==
    [li EXCEPT !.linkStatus = LINK_STATUS_ACCEPTED,
               !.targetVerkey = TARGET_VER_KEY_SAME_AS_ID,
               !.availableClaims = updateAvailableClaims(@, availableClaims)]

\* the claimDefKey names of a list of AvailableClaimData
ClaimNames(availableClaims) ==
    [i \in 1..Len(availableClaims) |-> availableClaims[i].claimDefKey.name]

\* _handleAcceptInviteResponse
handleAcceptInviteResponse(a, w, body, frm, ha) ==
    LET v == isVerified(body)
        identifier == Get(body, "identifier", NoId)
        li == getLinkInvitationByTarget(w.links, getCryptonym(identifier))
        loop == availableClaimsLoop(body.availableClaimsList, << >>,
                                    w.claimDefs)
        greeting == << Notify("Response from {}:", << li >>),
                       Notify("    Signature accepted.", << >>),
                       Notify("    Trust established.", << >>),
                       Notify("    Identifier created in Sovrin.", << >>) >>
    IN  IF ~v.ok
        THEN Eff(w.links, w.claimDefs, v.calls, "none")
        ELSE IF li = None
        THEN Eff(w.links, w.claimDefs,
                 << Notify("No matching link found", << >>) >>, "none")
        ELSE IF loop.raised /= "none"
        THEN Eff(w.links, loop.claimDefs, greeting, loop.raised)
        ELSE Eff(addLinkInvitation(
                     w.links, acceptedLink(w.links[li], loop.availableClaims)),
                 loop.claimDefs,
                 greeting \o
                 (IF Len(loop.availableClaims) > 0
                  THEN << Notify("    Available claims: {}",
                                 << ClaimNames(loop.availableClaims) >>),
                          Notify("Synchronizing...", << >>) >>
                  ELSE << >>),
                 "none")

\* _handleReqClaimResponse, lines 308-323: the loop over the claims.
\* Result: the links after the loop and the calls made so far.
RECURSIVE claimsLoop(_, _, _, _, _)
claimsLoop(claims, ls, identifier, now, cls) ==
    IF claims = << >>
    THEN [links |-> ls, calls |-> cls]
    ELSE LET claim == Head(claims)
             li == getLinkInvitationByTarget(ls, getCryptonym(identifier))
             rc == [ReceivedClaim(
                        ClaimDefKey(claim.name, claim.version,
                                    claim.claimDefSeqNo),
                        {}, claim.values)
                    EXCEPT !.dateOfIssue = now]
             ls2 == IF li /= None
                    THEN addLinkInvitation(
                             ls, [ls[li] EXCEPT !.receivedClaims =
                                     updateReceivedClaims(@, << rc >>)])
                    ELSE ls
         IN  claimsLoop(Tail(claims), ls2, identifier, now,
                        Append(cls, Notify("Received {}.", << claim.name >>)))

\* the else clause as it would be if it ran only when the loop body never ran
forElseWhenEmpty(claims) ==
    IF claims = << >> THEN << Notify("No matching link found", << >>) >>
    ELSE << >>

\* what the else clause of the for statement at lines 308-325 does once the
\* loop over claims has ended; the loop has no break, so it always runs
forElse(claims) == << Notify("No matching link found", << >>) >>

\* _handleReqClaimResponse as it would be if the claims were taken in
\* whatever _isVerified says
handleReqClaimResponseUnverified(a, w, body, frm, ha) ==
    LET v == isVerified(body)
        identifier == Get(body, "identifier", NoId)
        loop == claimsLoop(body.claims, w.links, identifier, steps + 1,
                           << Notify("Signature accepted.", << >>) >>)
    IN  Eff(loop.links, w.claimDefs,
            v.calls \o loop.calls \o forElse(body.claims), "none")

\* _handleReqClaimResponse
handleReqClaimResponse(a, w, body, frm, ha) ==
    LET v == isVerified(body)
        identifier == Get(body, "identifier", NoId)
        loop == claimsLoop(body.claims, w.links, identifier, steps + 1,
                           << Notify("Signature accepted.", << >>) >>)
    IN  IF ~v.ok
        THEN Eff(w.links, w.claimDefs, v.calls, "none")
        ELSE Eff(loop.links, w.claimDefs,
                 loop.calls \o forElse(body.claims), "none")

\* the keys of msgHandlers
HandledTypes ==
    {ERROR, AVAIL_CLAIM_LIST, CLAIMS, ACCEPT_INVITE, REQUEST_CLAIMS}

\* handleEndpointMessage as it would be if a message of a type without
\* handler were passed over (the logger.warning of line 246)
handleEndpointMessageLenient(a, w, body, frm) ==
    LET typ == Get(body, "type", None)
        frmHa == HaOf(frm)
    IN  IF typ \in HandledTypes
        THEN IF frm \notin remotes[a]
             THEN Eff(w.links, w.claimDefs, << >>, "RemoteNotFound")
             ELSE CASE typ = ERROR -> handleError(a, w, body, frm, frmHa)
                    [] typ = AVAIL_CLAIM_LIST ->
                           handleAcceptInviteResponse(a, w, body, frm, frmHa)
                    [] typ = CLAIMS ->
                           handleReqClaimResponse(a, w, body, frm, frmHa)
                    [] typ = ACCEPT_INVITE ->
                           acceptInvite(a, w, body, frm, frmHa)
                    [] typ = REQUEST_CLAIMS ->
                           reqClaim(a, w, body, frm, frmHa)
        ELSE Eff(w.links, w.claimDefs, << >>, "none")

\* WalletedAgent.handleEndpointMessage
handleEndpointMessage(a, w, body, frm) ==
    LET typ == Get(body, "type", None)
        frmHa == HaOf(frm)
    IN  IF typ \in HandledTypes
        THEN IF frm \notin remotes[a]
             THEN Eff(w.links, w.claimDefs, << >>, "RemoteNotFound")
             ELSE CASE typ = ERROR -> handleError(a, w, body, frm, frmHa)
                    [] typ = AVAIL_CLAIM_LIST ->
                           handleAcceptInviteResponse(a, w, body, frm, frmHa)
                    [] typ = CLAIMS ->
                           handleReqClaimResponse(a, w, body, frm, frmHa)
                    [] typ = ACCEPT_INVITE ->
                           acceptInvite(a, w, body, frm, frmHa)
                    [] typ = REQUEST_CLAIMS ->
                           reqClaim(a, w, body, frm, frmHa)
        ELSE Eff(w.links, w.claimDefs, << >>, "NotImplementedError")

-----
(* Inbound messages the environment may deliver to agent A *)

\* identifiers an inbound message may declare: B's and X's, the targets of
\* A's links, and one that is the target of no link
MsgIds == {Hex("kB"), Crypt("kX"), Hex("kM")}

\* nonces an inbound message may carry: n0 is the nonce of no link
Nonces == {"n1", "n2", "n0"}

\* claim names a REQUEST_CLAIMS may ask for: c3 is not in the catalog
RequestedNames == {"c1", "c3"}

\* entries of an availableClaimsList, with and without inline definition
c1Def == [name |-> "c1", version |-> "1.0", claimDefSeqNo |-> 1,
          definition |-> "d1"]
c2Def == [name |-> "c2", version |-> "1.0", claimDefSeqNo |-> 2,
          definition |-> "d2"]
c2NoDef == [name |-> "c2", version |-> "1.0", claimDefSeqNo |-> 2]

AvailLists ==
    { << >>, << c1Def >>, << c2NoDef >>, << c1Def, c2Def >>,
      << c2Def, c1Def >>, << c1Def, c2NoDef >>, << c2NoDef, c1Def >>,
      << c1Def, c1Def >> }

\* entries of a claims list
c1Claim == [name |-> "c1", version |-> "1.0", claimDefSeqNo |-> 1,
            values |-> "v1"]
c2Claim == [name |-> "c2", version |-> "1.0", claimDefSeqNo |-> 2,
            values |-> "v2"]

ClaimLists == { << >>, << c1Claim >>, << c1Claim, c2Claim >> }

\* message bodies before signing
Payloads ==
    {[type |-> ACCEPT_INVITE, identifier |-> i, nonce |-> n] :
        i \in MsgIds, n \in Nonces}
    \cup
    {[type |-> REQUEST_CLAIMS, identifier |-> i, nonce |-> n, claimName |-> c] :
        i \in MsgIds, n \in Nonces, c \in RequestedNames}
    \cup
    {[type |-> AVAIL_CLAIM_LIST, identifier |-> i, availableClaimsList |-> l] :
        i \in MsgIds, l \in AvailLists}
    \cup
    {[type |-> CLAIMS, identifier |-> i, claims |-> l] :
        i \in MsgIds, l \in ClaimLists}

\* signatures a message with payload p may arrive with: the declared
\* identifier's own, and one made with another key
Signatures(p) == { signMsg(p, p.identifier), signMsg(p, Hex("kZ")) }

InboundBodies ==
    UNION {{SetField(p, "signature", sg) : sg \in Signatures(p)} :
              p \in Payloads}
    \cup
    { [type |-> ERROR, data |-> "Signature Rejected",
       REQ_MSG |-> [type |-> ACCEPT_INVITE]],
      [type |-> "PING"] }

\* what arrives, by sender: the stranger X sends invitation acceptances only
Inbound ==
    {<<"B", body>> : body \in InboundBodies}
    \cup
    {<<"X", body>> : body \in {b \in InboundBodies : b.type = ACCEPT_INVITE}}

-----------------------------------------------------------------------------
(* The state machine *)

NoMessage == [to |-> None, frm |-> None, body |-> [type |-> None]]

NoPost == [by |-> None, destName |-> None, msg |-> [type |-> None]]

\* messages an owner has its agent send: one of a type the peer has no
\* handler for, and a claim request on the link with nonce n1
Posts(a) ==
    LET req == [type |-> REQUEST_CLAIMS, identifier |-> defaultId(a),
                nonce |-> "n1", claimName |-> "c1"]
    IN  { [type |-> "PING"],
          SetField(req, "signature", signMsg(req, defaultId(a))) }

Init ==
    /\ links = [a \in Agents |-> InitLinks(a)]
    /\ claimDefs = [a \in Agents |-> {}]
    /\ remotes = [a \in Agents |-> IF a = "A" THEN {"B"} ELSE {"A", "X"}]
    /\ cur = NoMessage
    /\ before = [links |-> InitLinks("A"), claimDefs |-> {},
                 acceptedNonces |-> {}]
    /\ calls = << >>
    /\ raised = "none"
    /\ verifiedNonces = [a \in Agents |-> {}]
    /\ acceptedNonces = [a \in Agents |-> {}]
    /\ steps = 0
    /\ posted = NoPost
    /\ chain = 0

\* Whether verifyAndGetLink runs on this message and its signature check
\* passes
PassesLinkVerification(a, body, frm) ==
    /\ Get(body, "type", None) \in {ACCEPT_INVITE, REQUEST_CLAIMS}
    /\ frm \in remotes[a]
    /\ verifySig(Get(body, "identifier", NoId), Get(body, "signature", NoSig),
                 body)

\* the messages transmitted, the requests submitted to the ledger and the
\* notifications made during the last call, each in order
sent == SelectSeq(calls, LAMBDA c : c.call = "transmit")
submitted == SelectSeq(calls, LAMBDA c : c.call = "submitReqs")
notified == SelectSeq(calls, LAMBDA c : c.call = "notify")

\* One call of handleEndpointMessage((body, frm)) on agent a
Handle(a, frm, body) ==
    /\ steps < MaxSteps
    /\ LET w == [links |-> links[a], claimDefs |-> claimDefs[a]]
           e == handleEndpointMessage(a, w, body, frm)
       IN  /\ links' = [links EXCEPT ![a] = e.links]
           /\ claimDefs' = [claimDefs EXCEPT ![a] = e.claimDefs]
           /\ before' = [links |-> links[a], claimDefs |-> claimDefs[a],
                          acceptedNonces |-> acceptedNonces[a]]
           /\ calls' = e.calls
           /\ raised' = e.raised
    /\ cur' = [to |-> a, frm |-> frm, body |-> body]
    /\ verifiedNonces' =
           IF PassesLinkVerification(a, body, frm)
           THEN [verifiedNonces EXCEPT ![a] = @ \cup {Get(body, "nonce", None)}]
           ELSE verifiedNonces
    /\ acceptedNonces' =
           IF /\ PassesLinkVerification(a, body, frm)
              /\ body.type = ACCEPT_INVITE
              /\ getLinkByNonce(links[a], Get(body, "nonce", None)) /= None
           THEN [acceptedNonces EXCEPT ![a] = @ \cup {Get(body, "nonce", None)}]
           ELSE acceptedNonces
    /\ steps' = steps + 1
    /\ posted' = NoPost
    /\ UNCHANGED remotes

\* The owner of agent a has it send msg to destName: one call of
\* Agent.sendMessage from outside the handlers
Post(a, msg, destName) ==
    /\ steps < MaxSteps
    /\ calls' = sendMessage(a, msg, destName)
    /\ raised' = "none"
    /\ cur' = NoMessage
    /\ before' = [links |-> links[a], claimDefs |-> claimDefs[a],
                   acceptedNonces |-> acceptedNonces[a]]
    /\ posted' = [by |-> a, destName |-> destName, msg |-> msg]
    /\ chain' = 0
    /\ steps' = steps + 1
    /\ UNCHANGED <<links, claimDefs, remotes, verifiedNonces, acceptedNonces>>

\* The environment delivers a message to agent A
Inject ==
    /\ \E m \in Inbound : Handle("A", m[1], m[2])
    /\ chain' = 1

\* A message an agent transmitted in the last call reaches its destination
Deliver ==
    /\ \E i \in 1..Len(sent) :
          /\ sent[i].to \in Agents
          /\ Handle(sent[i].to, sent[i].frm, sent[i].body)
    /\ chain' = chain + 1

\* Agent.connectTo(ha): the endpoint gets to know the remote at ha
connectTo(a, name) ==
    /\ name \notin remotes[a]
    /\ name /= a
    /\ remotes' = [remotes EXCEPT ![a] = @ \cup {name}]
    /\ UNCHANGED <<links, claimDefs, cur, before, calls, raised,
                   verifiedNonces, acceptedNonces, steps, posted, chain>>

Next ==
    \/ Inject
    \/ Deliver
    \/ \E msg \in Posts("A"), destName \in Names \ {"A"} :
           Post("A", msg, destName)
    \/ \E a \in Agents, name \in Names : connectTo(a, name)

Spec == Init /\ [][Next]_vars

-----------------------------------------------------------------------------
(* What the properties below say of the last message handled *)

\* the handler registered for type typ ran on the last message
HandlerRan(typ) ==
    /\ cur.to /= None
    /\ cur.body.type = typ
    /\ raised /= "RemoteNotFound"

\* the signature of the last message verifies against its declared identifier
CurVerified ==
    verifySig(Get(cur.body, "identifier", NoId),
              Get(cur.body, "signature", NoSig), cur.body)

\* the link of the handling agent with the nonce of the last message, or None
CurLink == getLinkByNonce(before.links, Get(cur.body, "nonce", None))

\* the link of the handling agent whose target is the declared identifier of
\* the last message, or None
CurTargetLink ==
    getLinkInvitationByTarget(
        before.links, getCryptonym(Get(cur.body, "identifier", NoId)))

\* the wallet of the agent that handled the last message, as it is now
CurLinks == links[cur.to]
CurClaimDefs == claimDefs[cur.to]

-----------------------------------------------------------------------------
\* C1: handling an ACCEPT_INVITE whose signature verifies and whose nonce is
\* that of a link of the wallet makes exactly two calls, in this order: one
\* NYM operation for the declared identifier submitted to the ledger, then
\* one AVAIL_CLAIM_LIST with the agent's whole catalog transmitted to the
\* sender; no ERROR is transmitted and the handler ends normally.
C1_AcceptInviteSubmitsNymThenReplies ==
    (HandlerRan(ACCEPT_INVITE) /\ CurVerified /\ CurLink /= None) =>
        /\ Len(calls) = 2
        /\ calls[1].call = "submitReqs"
        /\ calls[1].req.op = [dest |-> cur.body.identifier, type |-> NYM]
        /\ calls[2].call = "transmit"
        /\ calls[2].to = cur.frm
        /\ calls[2].body.type = AVAIL_CLAIM_LIST
        /\ calls[2].body.availableClaimsList = getAvailableClaimList(cur.to)
        /\ raised = "none"

C1_Witness ==
    /\ HandlerRan(ACCEPT_INVITE) /\ CurVerified /\ CurLink /= None
    /\ Len(submitted) = 1
    /\ Len(sent) = 1
    /\ Len(sent[1].body.availableClaimsList) = 2

\* C2: handling an ACCEPT_INVITE whose signature does not verify transmits
\* one ERROR "Signature Rejected" to the sender and nothing else, submits
\* nothing to the ledger and leaves every link of the wallet as it was,
\* whether or not the nonce is that of a link.
C2_BadSignatureAcceptInvite ==
    (HandlerRan(ACCEPT_INVITE) /\ ~CurVerified) =>
        /\ Len(sent) = 1
        /\ sent[1].to = cur.frm
        /\ sent[1].body.type = ERROR
        /\ sent[1].body.data = "Signature Rejected"
        /\ submitted = << >>
        /\ CurLinks = before.links

C2_Witness ==
    /\ HandlerRan(ACCEPT_INVITE) /\ ~CurVerified /\ CurLink /= None
    /\ Len(sent) = 1
    /\ sent[1].body.data = "Signature Rejected"

\* C3: a link's remoteIdentifier and remoteEndPoint differ from their
\* initial values only if a message handled so far carried the link's nonce
\* and passed verifyAndGetLink's signature check; a message that fails
\* verification or whose nonce is that of no link changes neither field of
\* any link; the nonce of a link never changes.
C3_RemoteFieldsOnlyAfterVerification ==
    /\ \A a \in Agents : \A n \in DOMAIN links[a] :
          /\ (links[a][n].remoteIdentifier /= NoId
              \/ links[a][n].remoteEndPoint /= None)
                 => links[a][n].nonce \in verifiedNonces[a]
          /\ links[a][n].nonce = InitLinks(a)[n].nonce
    /\ (cur.to /= None /\ (~CurVerified \/ CurLink = None)) =>
          \A n \in DOMAIN CurLinks :
              /\ CurLinks[n].remoteIdentifier = before.links[n].remoteIdentifier
              /\ CurLinks[n].remoteEndPoint = before.links[n].remoteEndPoint

C3_Witness ==
    /\ HandlerRan(REQUEST_CLAIMS) /\ CurVerified /\ CurLink /= None
    /\ CurLinks[CurLink].remoteIdentifier = cur.body.identifier
    /\ CurLinks[CurLink].remoteEndPoint = HaOf(cur.frm)
    /\ before.links[CurLink].remoteIdentifier = NoId

\* C4: when link resolution fails for an ACCEPT_INVITE or REQUEST_CLAIMS,
\* exactly one message is transmitted, an ERROR to the sender quoting the
\* message, and no link is used (the links are untouched, nothing is
\* submitted): its data is "Signature Rejected" when the signature fails,
\* whatever the nonce, and "No Such Link found" when the signature verifies
\* and no link has the nonce.  No ERROR transmitted carries other data.
C4_LinkResolutionErrors ==
    /\ \A typ \in {ACCEPT_INVITE, REQUEST_CLAIMS} :
          (HandlerRan(typ) /\ (~CurVerified \/ CurLink = None)) =>
              /\ Len(sent) = 1
              /\ sent[1].to = cur.frm
              /\ sent[1].body.type = ERROR
              /\ sent[1].body.REQ_MSG = cur.body
              /\ sent[1].body.data = IF ~CurVerified THEN "Signature Rejected"
                                     ELSE "No Such Link found"
              /\ submitted = << >>
              /\ CurLinks = before.links
    /\ \A i \in 1..Len(sent) :
          sent[i].body.type = ERROR =>
              sent[i].body.data \in {"Signature Rejected", "No Such Link found"}

C4_Witness ==
    /\ HandlerRan(ACCEPT_INVITE) /\ CurVerified /\ CurLink = None
    /\ Len(sent) = 1
    /\ sent[1].body.data = "No Such Link found"

\* C5: for ACCEPT_INVITE, REQUEST_CLAIMS, AVAIL_CLAIM_LIST and CLAIMS,
\* handling a message whose signature fails, or whose nonce (for the first
\* two) or declared identifier (for the last two) matches no link, ends
\* without an exception; a REQUEST_CLAIMS whose link resolution fails makes
\* one call only, the transmission of the ERROR reply.
C5_FailuresAreNeverFatal ==
    /\ \A typ \in {ACCEPT_INVITE, REQUEST_CLAIMS} :
          (HandlerRan(typ) /\ (~CurVerified \/ CurLink = None)) =>
              raised = "none"
    /\ \A typ \in {AVAIL_CLAIM_LIST, CLAIMS} :
          (HandlerRan(typ) /\ (~CurVerified \/ CurTargetLink = None)) =>
              raised = "none"
    /\ (HandlerRan(REQUEST_CLAIMS) /\ (~CurVerified \/ CurLink = None)) =>
          /\ Len(calls) = 1
          /\ calls[1].call = "transmit"
          /\ calls[1].body.type = ERROR

-----------------------------------------------------------------------------
\* whether an entry of an availableClaimsList carries an inline definition
HasDefinition(cl) == Get(cl, "definition", None) /= None

\* the last message is a verified AVAIL_CLAIM_LIST from the target of a link,
\* with two entries of which exactly one carries a definition
MixedAvailClaimList ==
    /\ HandlerRan(AVAIL_CLAIM_LIST) /\ CurVerified /\ CurTargetLink /= None
    /\ Len(cur.body.availableClaimsList) = 2
    /\ HasDefinition(cur.body.availableClaimsList[1])
           /= HasDefinition(cur.body.availableClaimsList[2])

\* C6, as claimed: after such a message the claim store has one ClaimDef more
\* and the link's availableClaims two entries more, in either order of the
\* two entries.
C6_MixedListStoresOneAndListsTwo ==
    MixedAvailClaimList =>
        /\ Cardinality(CurClaimDefs) = Cardinality(before.claimDefs) + 1
        /\ Len(CurLinks[CurTargetLink].availableClaims) =
               Len(before.links[CurTargetLink].availableClaims) + 2

\* C6, amended: such a message ends the handler with NotImplementedError at
\* the entry without definition; no link changes (availableClaims gains
\* nothing, the status stays); the claim store gains nothing when the entry
\* without definition comes first, and when the entry with the definition
\* comes first it gains at most that entry's ClaimDef and then holds a
\* ClaimDef for its key.
C6_MixedListFailsAtMissingDefinition ==
    MixedAvailClaimList =>
        LET first == cur.body.availableClaimsList[1]
            firstKey == ClaimDefKey(first.name, first.version,
                                    first.claimDefSeqNo)
        IN  /\ raised = "NotImplementedError"
            /\ CurLinks = before.links
            /\ before.claimDefs \subseteq CurClaimDefs
            /\ IF HasDefinition(first)
               THEN /\ CurClaimDefs \subseteq
                           before.claimDefs
                               \cup {ClaimDef(firstKey, first.definition)}
                    /\ \E cd \in CurClaimDefs : cd.claimDefKey = firstKey
               ELSE CurClaimDefs = before.claimDefs

C6_Witness ==
    /\ MixedAvailClaimList
    /\ HasDefinition(cur.body.availableClaimsList[1])
    /\ Cardinality(CurClaimDefs) = Cardinality(before.claimDefs) + 1
    /\ CurLinks[CurTargetLink].availableClaims = << >>

\* C7: once an ACCEPT_INVITE with nonce n has been processed for a link, a
\* later validly signed ACCEPT_INVITE with the same nonce submits nothing to
\* the ledger and leaves the link's remoteIdentifier and remoteEndPoint.
C7_NonceIsSingleUse ==
    (/\ HandlerRan(ACCEPT_INVITE) /\ CurVerified /\ CurLink /= None
     /\ cur.body.nonce \in before.acceptedNonces) =>
        /\ submitted = << >>
        /\ CurLinks[CurLink].remoteIdentifier =
               before.links[CurLink].remoteIdentifier
        /\ CurLinks[CurLink].remoteEndPoint =
               before.links[CurLink].remoteEndPoint

\* no two entries of a link's availableClaims have the same ClaimDefKey
NoDuplicateKeys(availableClaims) ==
    \A i, j \in 1..Len(availableClaims) :
        availableClaims[i].claimDefKey = availableClaims[j].claimDefKey
            => i = j

C9_RequestClaimsRepliesWithNamedClaims ==
    (HandlerRan(REQUEST_CLAIMS) /\ CurVerified /\ CurLink /= None) =>
        /\ Len(calls) = 1
        /\ calls[1].call = "transmit"
        /\ calls[1].to = cur.frm
        /\ calls[1].body.type = CLAIMS
        /\ raised = "none"
        /\ LET reply == calls[1].body.claims
               catalog == getClaimList(cur.to)
               named == {i \in 1..Len(catalog) :
                            catalog[i].name = cur.body.claimName}
           IN  /\ Len(reply) = Cardinality(named)
               /\ \A i \in 1..Len(reply) :
                     \E p \in named : reply[i] = catalog[p]
               /\ \A i, j \in 1..Len(reply) :
                     i < j => \E p, q \in named :
                                 /\ p < q
                                 /\ reply[i] = catalog[p]
                                 /\ reply[j] = catalog[q]

C9_Witness ==
    /\ HandlerRan(REQUEST_CLAIMS) /\ CurVerified /\ CurLink /= None
    /\ Len(sent) = 1
    /\ Len(sent[1].body.claims) = 2
    /\ Len(getClaimList(cur.to)) = 3

C9_WitnessNoSuchClaim ==
    /\ HandlerRan(REQUEST_CLAIMS) /\ CurVerified /\ CurLink /= None
    /\ Len(sent) = 1
    /\ sent[1].body.type = CLAIMS
    /\ sent[1].body.claims = << >>

\* the "No matching link found" notifications of the last call
NoMatchingLinkNotes ==
    SelectSeq(notified, LAMBDA c : c.text = "No matching link found")

\* C10, as claimed: for a verified CLAIMS message "No matching link found" is
\* notified only if the claims list is empty.
C10_NoMatchingLinkOnlyForEmptyList ==
    (HandlerRan(CLAIMS) /\ CurVerified /\ Len(NoMatchingLinkNotes) > 0) =>
        cur.body.claims = << >>

\* C10, amended: for every verified CLAIMS message "No matching link found"
\* is notified exactly once, as the last call of the handler, whether the
\* claims list is empty or not and whether or not a link matches the sender;
\* for a CLAIMS message that fails verification it is not notified.
C10_NoMatchingLinkAfterEveryVerifiedClaims ==
    /\ (HandlerRan(CLAIMS) /\ CurVerified) =>
          /\ Len(NoMatchingLinkNotes) = 1
          /\ calls[Len(calls)] = Notify("No matching link found", << >>)
    /\ (HandlerRan(CLAIMS) /\ ~CurVerified) => Len(NoMatchingLinkNotes) = 0

C10_Witness ==
    /\ HandlerRan(CLAIMS) /\ CurVerified /\ CurTargetLink /= None
    /\ Len(cur.body.claims) = 2
    /\ Len(CurLinks[CurTargetLink].receivedClaims) = 2
    /\ Len(NoMatchingLinkNotes) = 1

-----------------------------------------------------------------------------
\* C11: an AVAIL_CLAIM_LIST whose signature fails, or whose signature
\* verifies but whose declared identifier is the target of no link, leaves
\* the links and the claim store as they were, and the handler makes one
\* call only, the notification "Signature rejected" resp. "No matching link
\* found": nothing is transmitted or submitted, and it ends normally.
C11_RejectedAvailClaimListChangesNothing ==
    (HandlerRan(AVAIL_CLAIM_LIST) /\ (~CurVerified \/ CurTargetLink = None)) =>
        /\ CurLinks = before.links
        /\ CurClaimDefs = before.claimDefs
        /\ calls = << Notify(IF ~CurVerified THEN "Signature rejected"
                             ELSE "No matching link found", << >>) >>
        /\ raised = "none"

C11_Witness ==
    /\ HandlerRan(AVAIL_CLAIM_LIST) /\ ~CurVerified /\ CurTargetLink /= None
    /\ Len(cur.body.availableClaimsList) = 2
    /\ calls = << Notify("Signature rejected", << >>) >>
    /\ CurLinks[CurTargetLink].linkStatus = LINK_STATUS_PENDING

C11_WitnessNoLink ==
    /\ HandlerRan(AVAIL_CLAIM_LIST) /\ CurVerified /\ CurTargetLink = None
    /\ Len(cur.body.availableClaimsList) = 2
    /\ calls = << Notify("No matching link found", << >>) >>

\* C12: a message whose type has no handler makes handleEndpointMessage end
\* with NotImplementedError, whoever sent it; no call is made (no handler
\* notification, no reply, no ledger submission) and the links and the claim
\* store are as before.
C12_UnknownTypeIsFatalAndInert ==
    (cur.to /= None /\ Get(cur.body, "type", None) \notin HandledTypes) =>
        /\ raised = "NotImplementedError"
        /\ calls = << >>
        /\ CurLinks = before.links
        /\ CurClaimDefs = before.claimDefs

C12_Witness ==
    /\ cur.to /= None
    /\ cur.body.type = "PING"
    /\ raised = "NotImplementedError"
    /\ calls = << >>

\* C13: an ERROR message is handled whatever its signature (or lack of one):
\* the handler makes one call only, a notification carrying the message's
\* data and REQ_MSG; nothing is transmitted or submitted, the links and the
\* claim store are as before, and it ends normally.
C13_ErrorIsInformational ==
    HandlerRan(ERROR) =>
        /\ calls = << Notify("Error ({}) occurred while processing this msg: {}",
                             << cur.body.data, cur.body.REQ_MSG >>) >>
        /\ CurLinks = before.links
        /\ CurClaimDefs = before.claimDefs
        /\ raised = "none"

C13_Witness ==
    /\ HandlerRan(ERROR)
    /\ ~CurVerified
    /\ Len(notified) = 1
    /\ notified[1].args[1] = "Signature Rejected"
    /\ sent = << >>

C13_WitnessSigned ==
    /\ HandlerRan(ERROR)
    /\ CurVerified
    /\ cur.to = "B"
    /\ Len(notified) = 1
    /\ notified[1].args[2].type = ACCEPT_INVITE

-----------------------------------------------------------------------------
\* a peer name no endpoint ever knows
Stranger == "Z"

\* the outcome of the handler of the last message had its sender been a name
\* the endpoint cannot resolve when the reply is sent
UndeliverableOutcome ==
    LET w == [links |-> before.links, claimDefs |-> before.claimDefs]
    IN  IF cur.body.type = ACCEPT_INVITE
        THEN acceptInvite(cur.to, w, cur.body, Stranger, HaOf(cur.frm))
        ELSE reqClaim(cur.to, w, cur.body, Stranger, HaOf(cur.frm))

\* C14: a sendMessage to a destination the endpoint does not know transmits
\* nothing and raises nothing, and leaves the wallet alone; and a handler
\* that replies (for ACCEPT_INVITE, REQUEST_CLAIMS) would, with a sender the
\* endpoint cannot resolve, transmit nothing and have the same links, claim
\* store, ledger submissions and ending as it had with its reply delivered.
C14_UnresolvableDestinationDropsMessage ==
    /\ (posted.by /= None /\ posted.destName \notin remotes[posted.by]) =>
          /\ calls = << >>
          /\ raised = "none"
          /\ links[posted.by] = before.links
          /\ claimDefs[posted.by] = before.claimDefs
    /\ \A typ \in {ACCEPT_INVITE, REQUEST_CLAIMS} :
          (HandlerRan(typ) /\ Len(sent) > 0) =>
              /\ UndeliverableOutcome.links = CurLinks
              /\ UndeliverableOutcome.claimDefs = CurClaimDefs
              /\ UndeliverableOutcome.raised = raised
              /\ SelectSeq(UndeliverableOutcome.calls,
                           LAMBDA c : c.call /= "transmit")
                     = SelectSeq(calls, LAMBDA c : c.call /= "transmit")
              /\ SelectSeq(UndeliverableOutcome.calls,
                           LAMBDA c : c.call = "transmit") = << >>

C14_Witness ==
    /\ posted.by = "A"
    /\ posted.destName = "X"
    /\ "X" \notin remotes["A"]
    /\ posted.msg.type = REQUEST_CLAIMS
    /\ calls = << >>
    /\ raised = "none"

C14_WitnessDelivered ==
    /\ posted.by = "A"
    /\ posted.destName = "B"
    /\ Len(sent) = 1
    /\ sent[1].body = posted.msg

-----------------------------------------------------------------------------
\* the ClaimDefKey of an entry of an availableClaimsList
KeyOf(cl) == ClaimDefKey(cl.name, cl.version, cl.claimDefSeqNo)

\* the last message is a verified AVAIL_CLAIM_LIST from the target of a link
\* and every entry of its list carries a definition
DefinedAvailClaimList ==
    /\ HandlerRan(AVAIL_CLAIM_LIST) /\ CurVerified /\ CurTargetLink /= None
    /\ \A i \in 1..Len(cur.body.availableClaimsList) :
          HasDefinition(cur.body.availableClaimsList[i])

\* the notifications of the last call whose text is text
NotesOf(text) == SelectSeq(notified, LAMBDA c : c.text = text)

C15_WitnessEmptyList ==
    /\ DefinedAvailClaimList
    /\ cur.body.availableClaimsList = << >>
    /\ before.links[CurTargetLink].linkStatus = LINK_STATUS_PENDING
    /\ CurLinks[CurTargetLink].linkStatus = LINK_STATUS_ACCEPTED
    /\ NotesOf("Synchronizing...") = << >>

-----------------------------------------------------------------------------
\* C16: when the handler of an AVAIL_CLAIM_LIST ends with an exception, the
\* claim store and the links are exactly as they were before the message,
\* and "Trust established." has not been notified for a link that is left
\* PENDING.
C16_AvailClaimListIsTransactional ==
    (HandlerRan(AVAIL_CLAIM_LIST) /\ raised /= "none") =>
        /\ CurClaimDefs = before.claimDefs
        /\ CurLinks = before.links
        /\ (CurTargetLink /= None
            /\ CurLinks[CurTargetLink].linkStatus = LINK_STATUS_PENDING)
               => NotesOf("    Trust established.") = << >>

-----------------------------------------------------------------------------
\* s is an initial part of t
IsPrefix(s, t) ==
    /\ Len(s) <= Len(t)
    /\ \A i \in 1..Len(s) : s[i] = t[i]

\* the ReceivedClaims the claims of the last message make, in message order
CurReceivedClaims ==
    [i \in 1..Len(cur.body.claims) |->
        [ReceivedClaim(KeyOf(cur.body.claims[i]), {},
                       cur.body.claims[i].values)
         EXCEPT !.dateOfIssue = steps]]

\* C17: a call leaves what each link's receivedClaims held in place, at its
\* front; a link's receivedClaims changes only when a CLAIMS message whose
\* signature verifies is handled and the link is the one whose target is the
\* message's declared identifier; that link then gains one ReceivedClaim
\* per claim of the message, in message order, at its end; a CLAIMS message
\* that fails verification or whose identifier is no link's target leaves
\* every link as it was.
C17_ReceivedClaimsAppendOnly ==
    /\ cur.to /= None =>
          \A n \in DOMAIN CurLinks :
              /\ IsPrefix(before.links[n].receivedClaims,
                          CurLinks[n].receivedClaims)
              /\ CurLinks[n].receivedClaims /= before.links[n].receivedClaims
                     => /\ HandlerRan(CLAIMS) /\ CurVerified
                        /\ n = CurTargetLink
    /\ (HandlerRan(CLAIMS) /\ CurVerified /\ CurTargetLink /= None) =>
          CurLinks[CurTargetLink].receivedClaims =
              before.links[CurTargetLink].receivedClaims \o CurReceivedClaims
    /\ (HandlerRan(CLAIMS) /\ (~CurVerified \/ CurTargetLink = None)) =>
          CurLinks = before.links
    /\ posted.by /= None => links[posted.by] = before.links

C17_Witness ==
    /\ HandlerRan(CLAIMS) /\ CurVerified /\ CurTargetLink /= None
    /\ cur.body.claims = << c1Claim, c2Claim >>
    /\ Len(before.links[CurTargetLink].receivedClaims) = 1
    /\ Len(CurLinks[CurTargetLink].receivedClaims) = 3
    /\ CurLinks[CurTargetLink].receivedClaims[3].values = "v2"
    /\ \A n \in DOMAIN CurLinks \ {CurTargetLink} :
          CurLinks[n].receivedClaims = << >>

C17_WitnessRejected ==
    /\ HandlerRan(CLAIMS) /\ ~CurVerified /\ CurTargetLink /= None
    /\ Len(cur.body.claims) = 2
    /\ Len(before.links[CurTargetLink].receivedClaims) = 1
    /\ CurLinks = before.links

-----------------------------------------------------------------------------
\* the AVAIL_CLAIM_LIST and CLAIMS messages transmitted during the last call
Replies ==
    SelectSeq(sent, LAMBDA c : c.body.type \in {AVAIL_CLAIM_LIST, CLAIMS})

\* the last message is an AVAIL_CLAIM_LIST or CLAIMS reply that agent A
\* made and B's endpoint received
GenuineReply ==
    /\ cur.to = "B" /\ cur.frm = "A"
    /\ HandlerRan(AVAIL_CLAIM_LIST) \/ HandlerRan(CLAIMS)

\* C18: an AVAIL_CLAIM_LIST or CLAIMS reply a handler transmits has the
\* agent's default identifier in its identifier field and a signature made,
\* over the message with that field, with the localIdentifier of the link the
\* request resolved to; the peer's _isVerified accepts it iff that
\* localIdentifier has the key of the default identifier.  When such a reply
\* reaches the peer, it is accepted iff it was signed with the key of the
\* sender's default identifier, and otherwise the peer's only call is the
\* notification "Signature rejected" and its links stay as they were (none
\* becomes ACCEPTED).
C18_ReplyVerifiesIffSignedAsDefault ==
    /\ (cur.to /= None /\ Replies /= << >>) =>
          \A i \in 1..Len(Replies) :
              LET reply == Replies[i].body
                  li == CurLinks[CurLink]
              IN  /\ CurLink /= None
                  /\ reply.identifier = defaultId(cur.to)
                  /\ reply.signature = signMsg(reply, li.localIdentifier)
                  /\ isVerified(reply).ok
                         <=> li.localIdentifier.key = defaultId(cur.to).key
    /\ GenuineReply =>
          /\ cur.body.identifier = defaultId("A")
          /\ \E n \in DOMAIN links["A"] :
                links["A"][n].localIdentifier.key = cur.body.signature.by
          /\ CurVerified <=> cur.body.signature.by = defaultId("A").key
          /\ ~CurVerified =>
                /\ calls = << Notify("Signature rejected", << >>) >>
                /\ CurLinks = before.links

C18_Witness ==
    /\ GenuineReply
    /\ cur.body.type = AVAIL_CLAIM_LIST
    /\ cur.body.signature.by = "kA2"
    /\ ~CurVerified
    /\ calls = << Notify("Signature rejected", << >>) >>
    /\ CurLinks["toA"].linkStatus = LINK_STATUS_PENDING

C18_WitnessAccepted ==
    /\ GenuineReply
    /\ cur.body.type = AVAIL_CLAIM_LIST
    /\ cur.body.signature.by = "kA"
    /\ CurVerified
    /\ CurLinks["toA"].linkStatus = LINK_STATUS_ACCEPTED

C18_WitnessClaims ==
    /\ GenuineReply
    /\ cur.body.type = CLAIMS
    /\ cur.body.signature.by = "kA2"
    /\ Len(cur.body.claims) = 2
    /\ ~CurVerified
    /\ CurLinks["toA"].receivedClaims = << >>

-----------------------------------------------------------------------------
\* the types of the messages a handler sends
ReplyTypes == {ERROR, AVAIL_CLAIM_LIST, CLAIMS}

\* C19: the handlers of ERROR, AVAIL_CLAIM_LIST and CLAIMS transmit nothing;
\* the handlers of ACCEPT_INVITE and REQUEST_CLAIMS transmit at most one
\* message; every message a handler transmits is an ERROR, AVAIL_CLAIM_LIST
\* or CLAIMS.  So a message that enters from outside leads to at most two
\* handleEndpointMessage calls, its own and that of the one reply, and the
\* second transmits nothing.
C19_ExchangesQuiesce ==
    /\ \A typ \in ReplyTypes : HandlerRan(typ) => sent = << >>
    /\ \A typ \in {ACCEPT_INVITE, REQUEST_CLAIMS} :
          HandlerRan(typ) => Len(sent) <= 1
    /\ cur.to /= None =>
          \A i \in 1..Len(sent) : sent[i].body.type \in ReplyTypes
    /\ chain <= 2
    /\ chain = 2 => sent = << >>

C19_Witness ==
    /\ chain = 2
    /\ HandlerRan(ERROR)
    /\ cur.to = "B" /\ cur.frm = "A"
    /\ cur.body.REQ_MSG.type = REQUEST_CLAIMS
    /\ Len(notified) = 1
    /\ sent = << >>

-----------------------------------------------------------------------------
\* C20: in every state, a link that holds a received claim is ACCEPTED: a
\* verified CLAIMS message for a link that is still PENDING adds no
\* received claim to it.
C20_ReceivedClaimsOnlyOnAcceptedLinks ==
    \A a \in Agents : \A n \in DOMAIN links[a] :
        links[a][n].receivedClaims /= << >>
            => links[a][n].linkStatus = LINK_STATUS_ACCEPTED

====
